---- MODULE Spec2Model ----
(***************************************************************************)
(* aeletsencrypt: Let's Encrypt certificates for AppEngine custom domains.  *)
(* The model follows src/cron.go (cronHandler, createUpdate, addTip) and    *)
(* src/acme.go (challengeHandler, obtainCert, authorize).  The AppEngine    *)
(* Admin API (the registry), the ACME certificate authority and memcache    *)
(* are the environment: every call to them may succeed or fail.             *)
(***************************************************************************)
EXTENDS Integers, Sequences, FiniteSets, TLC

(***************************************************************************)
(* Bounds of the model.                                                     *)
(***************************************************************************)
MaxDomains == 2    \* custom domains of the app
MaxCerts == 2      \* certificates the registry holds before the first request
MaxRequests == 1   \* requests to /.well-known/letsencrypt in one behaviour
MaxNow == 1        \* days the clock may advance

(***************************************************************************)
(* Program constants, in days.                                              *)
(***************************************************************************)
updateBefore == 30
expiry == 90

DomainNames == <<"a.example", "b.example", "c.example", "d.example">>
Domains == {DomainNames[k] : k \in 1..MaxDomains}

Nil == [nil |-> TRUE]
NoErr == [kind |-> "nil", domain |-> "", step |-> "", cause |-> "", tip |-> ""]

(***************************************************************************)
(* Time.  ExpireTime is a string in the API, which writes it in RFC3339;    *)
(* time.Parse(time.RFC3339, s) accepts the RFC3339 strings and rejects the  *)
(* others.                                                                  *)
(***************************************************************************)
FormatRFC3339(t) == [layout |-> "RFC3339", text |-> t]
ParseRFC3339(s) ==
  IF s.layout = "RFC3339" THEN [ok |-> TRUE, t |-> s.text] ELSE [ok |-> FALSE, t |-> 0]

\* expiry days of the certificates the registry may hold at the start: one
\* already reached, and one that enters the window of updateBefore days only
\* on the last day of the clock
InitialExpiry == {0, updateBefore + MaxNow}
InitialExpireTimes == {FormatRFC3339(t) : t \in InitialExpiry}

(***************************************************************************)
(* Keys, requests, certificates and their PEM encoding.                  *)
(***************************************************************************)
GenerateKey(use, n) == [use |-> use, n |-> n, bits |-> 2048]
CertificateRequestNoSubject(domain, certKey) ==
  [CommonName |-> "", DNSNames |-> <<domain>>, key |-> certKey]
CertificateRequest(domain, certKey) ==
  [CommonName |-> domain, DNSNames |-> <<domain>>, key |-> certKey]
PemBlock(type, bytes) == [Type |-> type, Bytes |-> bytes]
EncodeChain(certDER) == [k \in 1..Len(certDER) |-> PemBlock("CERTIFICATE", certDER[k])]
EncodeKey(certKey) == <<PemBlock("RSA PRIVATE KEY", certKey)>>
NoPem == <<>>

\* the CA's answer to CreateCert(csr, expiry, bundle = true): leaf first, then
\* the issuer
IssuedChainShort(csr, today) ==
  << [CommonName |-> csr.CommonName, DNSNames |-> csr.DNSNames,
      key |-> csr.key, NotAfter |-> today + updateBefore],
     [CommonName |-> "issuer", DNSNames |-> <<>>,
      key |-> GenerateKey("issuer", 0), NotAfter |-> today + expiry] >>

IssuedChain(csr, today) ==
  << [CommonName |-> csr.CommonName, DNSNames |-> csr.DNSNames,
      key |-> csr.key, NotAfter |-> today + expiry],
     [CommonName |-> "issuer", DNSNames |-> <<>>,
      key |-> GenerateKey("issuer", 0), NotAfter |-> today + expiry] >>

\* a certificate the registry held before the first request
OldChain(domain, t) ==
  << [CommonName |-> domain, DNSNames |-> <<domain>>,
      key |-> GenerateKey("cert", 0), NotAfter |-> t] >>

(***************************************************************************)
(* http-01 challenge: path and response of a token.                         *)
(***************************************************************************)
HTTP01ChallengePath(token) == <<"/.well-known/acme-challenge/", token>>
HTTP01ChallengeResponse(token, accountKey) == [token |-> token, thumbprint |-> accountKey.n]

(***************************************************************************)
(* Errors.  An error carries the message prefix createUpdate or obtainCert  *)
(* gives it (kind, step), the domain it names, the underlying cause and the *)
(* tip addTip appends.                                                      *)
(***************************************************************************)
Err(kind, d, step, cause) ==
  [kind |-> kind, domain |-> d, step |-> step, cause |-> cause, tip |-> ""]

\* messages of the Admin API errors addTip recognises, and one it does not
ApiMessages ==
  {"Quota configuration not found",
   "Google App Engine Admin API has not been used",
   "Operation not allowed, forbidden",
   "Caller is not authorized to administer this certificate",
   "backend error"}

addTipDropsError(e) == NoErr

addTip(e) ==
  CASE e.cause \in {"Quota configuration not found",
                    "Google App Engine Admin API has not been used"} ->
         [e EXCEPT !.tip = "enable Google App Engine Admin API"]
    [] e.cause = "Operation not allowed, forbidden" ->
         [e EXCEPT !.tip = "add AppEngine default service account to role App Engine Admin"]
    [] e.cause = "Caller is not authorized to administer this certificate" ->
         [e EXCEPT !.tip = "add AppEngine default service account as verified owner"]
    [] OTHER -> e

(***************************************************************************)
(* The offers of challenges the CA may make for the n-th authorization.     *)
(***************************************************************************)
Token(n, k) == [n |-> n, k |-> k]
Challenge(type, n, k) == [Type |-> type, Token |-> Token(n, k)]
ChallengeOffers(n) ==
  { <<>>,
    <<Challenge("dns-01", n, 2)>>,
    <<Challenge("http-01", n, 1)>>,
    <<Challenge("dns-01", n, 2), Challenge("http-01", n, 1)>>,
    <<Challenge("http-01", n, 1), Challenge("tls-sni-01", n, 3), Challenge("http-01", n, 2)>> }

(***************************************************************************)
(* State.                                                                   *)
(***************************************************************************)
VARIABLES
  mappings,      \* registry: the domain mappings, in listing order
  certs,         \* registry: the authorized certificates, in listing order
  nextId,        \* registry: identifier of the next certificate created
  cache,         \* memcache: a set of items [Key, Value]
  now,           \* the clock, in days
  quota,         \* requests to /.well-known/letsencrypt still to come
  req,           \* the request being (or last) served: header, admin flag, arrival
                 \* time, and how the request before it ended
  ctxDone,       \* the request's context is cancelled
  pc,            \* where createUpdate / obtainCert / authorize stands
  dm,            \* createUpdate: the listed domain mappings
  ac,            \* createUpdate: the listed certificates
  i,             \* createUpdate: position in dm
  j,             \* createUpdate: position in ac
  domain,        \* createUpdate: domain of the current iteration
  phase,         \* which loop called obtainCert: "domains" or "certs"
  cert,          \* obtainCert's first result (PEM chain)
  key,           \* obtainCert's second result (PEM key)
  created,       \* createUpdate: the certificate Create returned
  err,           \* createUpdate's result
  out,           \* the response body written so far
  status,        \* the response status sent (0: no header sent yet)
  issued,        \* number of obtainCert calls that generated keys
  certKey,       \* obtainCert: the certificate key
  csr,           \* obtainCert: the certificate request
  accountKey,    \* obtainCert: the account key of the acme client
  authorization, \* authorize: the CA's authorization
  challenge,     \* authorize: the selected challenge
  resp,          \* the last answer of challengeHandler
  calls,         \* history of the calls of the current request
  cancelAt       \* history: where the run stood when the context was cancelled

registry == <<mappings, certs, nextId>>
locals == <<dm, ac, i, j, domain, phase, created>>
issuance == <<issued, certKey, csr, accountKey, authorization, challenge>>
result == <<cert, key, err, out, status>>
vars == <<mappings, certs, nextId, cache, now, quota, req, ctxDone, pc, dm, ac, i, j,
          domain, phase, cert, key, created, err, out, status, issued, certKey, csr,
          accountKey, authorization, challenge, resp, calls, cancelAt>>

RawData(c, k) == [PublicCertificate |-> c, PrivateKey |-> k]

\* what the registry derives from the raw data it is given: the names and the
\* expiry of the leaf certificate
AuthorizedCertificate(id, name, raw) ==
  [Id |-> id, DisplayName |-> name,
   DomainNames |-> raw.PublicCertificate[1].Bytes.DNSNames,
   ExpireTime |-> FormatRFC3339(raw.PublicCertificate[1].Bytes.NotAfter),
   CertificateRawData |-> raw]

DomainMapping(d, ssl) == [Id |-> d, SslSettings |-> ssl]
SslSettings(id) == [CertificateId |-> id]

\* certificates the registry may hold before the first request
InitialCert(id, d, e) ==
  [Id |-> id, DisplayName |-> d, DomainNames |-> <<d>>, ExpireTime |-> e,
   CertificateRawData |->
     RawData(EncodeChain(OldChain(d, e.text)), EncodeKey(GenerateKey("cert", 0)))]

InitialCerts ==
  UNION { { [k \in 1..len |-> InitialCert(k, f[k][1], f[k][2])] :
            f \in [1..len -> Domains \X InitialExpireTimes] } : len \in 0..MaxCerts }

\* each domain is unbound, or bound to one of its certificates
InitialMappings(cs) ==
  { [k \in 1..MaxDomains |-> DomainMapping(DomainNames[k], b[k])] :
      b \in { g \in [1..MaxDomains -> {Nil} \cup {SslSettings(cs[x].Id) : x \in 1..Len(cs)}] :
                \A k \in 1..MaxDomains :
                  g[k] # Nil =>
                    \E x \in 1..Len(cs) : /\ cs[x].Id = g[k].CertificateId
                                          /\ cs[x].DomainNames[1] = DomainNames[k] } }

Idle ==
  /\ pc = "idle" /\ ctxDone = FALSE
  /\ dm = <<>> /\ ac = <<>> /\ i = 1 /\ j = 1 /\ domain = "" /\ phase = ""
  /\ cert = NoPem /\ key = NoPem /\ created = Nil /\ err = NoErr
  /\ out = <<>> /\ status = 0
  /\ certKey = Nil /\ csr = Nil /\ accountKey = Nil
  /\ authorization = Nil /\ challenge = Nil
  /\ calls = <<>> /\ cancelAt = Nil

Init ==
  /\ certs \in InitialCerts
  /\ mappings \in InitialMappings(certs)
  /\ nextId = Len(certs) + 1
  /\ cache = {}
  /\ now = 0
  /\ quota = MaxRequests
  /\ req = Nil
  /\ issued = 0
  /\ resp = Nil
  /\ Idle

(***************************************************************************)
(* The response: the first write sends the header, with status 200 unless   *)
(* a status was set; http.Error sets the status only if no header was sent, *)
(* and writes the message.                                                  *)
(***************************************************************************)
Line(text, d) == [text |-> text, domain |-> d]
ErrorLine(e) == [text |-> "error", domain |-> e.domain, error |-> e]
Written(st) == IF st = 0 THEN 200 ELSE st
HttpError(st, code) == IF st = 0 THEN code ELSE st

Call(op, d, ok, data) == [op |-> op, domain |-> d, ok |-> ok, data |-> data]
Log(op, d, ok, data) == calls' = Append(calls, Call(op, d, ok, data))

\* createUpdate returns the error e: cronHandler answers with http.Error
Return(e) ==
  /\ pc' = "idle"
  /\ err' = e
  /\ out' = Append(out, ErrorLine(e))
  /\ status' = HttpError(status, 500)

\* createUpdate returns nil
ReturnNil(lines) ==
  /\ pc' = "idle"
  /\ err' = NoErr
  /\ out' = out \o lines
  /\ status' = Written(status)

(***************************************************************************)
(* cronHandler: the request is refused unless it carries the cron header    *)
(* or comes from an app admin.                                              *)
(***************************************************************************)
UnauthorizedInverted(header, isAdmin) == header # "" /\ ~isAdmin

\* cron.go:26
Unauthorized(header, isAdmin) == header = "" /\ ~isAdmin

cronHandler(header, isAdmin) ==
  /\ pc = "idle"
  /\ quota > 0
  /\ quota' = quota - 1
  /\ req' = [cron |-> header, admin |-> isAdmin, at |-> now,
              prior |-> IF req = Nil THEN Nil
                        ELSE [ok |-> status = 200 /\ err = NoErr, at |-> req.at]]
  /\ ctxDone' = FALSE /\ cancelAt' = Nil /\ calls' = <<>>
  /\ dm' = <<>> /\ ac' = <<>> /\ i' = 1 /\ j' = 1 /\ domain' = "" /\ phase' = ""
  /\ created' = Nil /\ cert' = NoPem /\ key' = NoPem /\ err' = NoErr
  /\ certKey' = Nil /\ csr' = Nil /\ accountKey' = Nil
  /\ authorization' = Nil /\ challenge' = Nil
  /\ IF Unauthorized(header, isAdmin)
       THEN /\ out' = <<Line("unauthorized", "")>>
            /\ status' = HttpError(0, 403)
            /\ pc' = "idle"
       ELSE /\ out' = <<>>
            /\ status' = 0
            /\ pc' = "createUpdate"
  /\ UNCHANGED <<registry, cache, now, issued, resp>>

(***************************************************************************)
(* createUpdate, up to the listing of the domain mappings.                  *)
(***************************************************************************)
NewService ==
  /\ pc = "createUpdate"
  /\ \E o \in {"ok", "default client", "api client"} :
       IF o = "ok"
         THEN /\ pc' = "ListDomainMappings"
              /\ UNCHANGED <<err, out, status>>
         ELSE Return(Err(o, "", "", "failed"))
  /\ UNCHANGED <<registry, cache, now, quota, req, ctxDone, locals, cert, key,
                 issuance, resp, calls, cancelAt>>

ListDomainMappings ==
  /\ pc = "ListDomainMappings"
  /\ \/ /\ dm' = mappings
        /\ i' = 1
        /\ pc' = "DomainMappings"
        /\ out' = Append(out, Line("Found custom domains", ""))
        /\ status' = Written(status)
        /\ Log("DomainMappings.List", "", TRUE, Nil)
        /\ UNCHANGED err
     \/ \E m \in ApiMessages :
          /\ Return(addTip(Err("list domains", "", "", m)))
          /\ Log("DomainMappings.List", "", FALSE, Nil)
          /\ UNCHANGED <<dm, i>>
  /\ UNCHANGED <<registry, cache, now, quota, req, ctxDone, ac, j, domain, phase,
                 created, cert, key, issuance, resp, cancelAt>>

HasCertificateNever(e) == FALSE

\* cron.go:58: the mapping has a certificate
HasCertificate(e) == e.SslSettings # Nil

\* the head of the loop over dm.DomainMappings
DomainMappings ==
  /\ pc = "DomainMappings"
  /\ IF i > Len(dm)
       THEN /\ pc' = "ListCertificates"
            /\ out' = Append(out, Line("", ""))
            /\ UNCHANGED <<i, domain, phase, calls>>
       ELSE /\ domain' = dm[i].Id
            /\ IF HasCertificate(dm[i])
                 THEN /\ out' = Append(out, Line("has certificate, nothing to do", dm[i].Id))
                      /\ i' = i + 1
                      /\ pc' = "DomainMappings"
                      /\ UNCHANGED <<phase, calls>>
                 ELSE /\ out' = Append(out, Line("no certificate, creating", dm[i].Id))
                      /\ phase' = "domains"
                      /\ pc' = "obtainCert"
                      /\ Log("obtainCert", dm[i].Id, TRUE, Nil)
                      /\ UNCHANGED i
  /\ status' = Written(status)
  /\ UNCHANGED <<registry, cache, now, quota, req, ctxDone, dm, ac, j, created,
                 cert, key, err, issuance, resp, cancelAt>>

(***************************************************************************)
(* obtainCert and authorize.  The calls of the acme client take the         *)
(* request's context: once it is cancelled they return its error.           *)
(***************************************************************************)
CaOutcomesIgnoreContext(done, outcomes) == outcomes
CaOutcomes(done, outcomes) == IF done THEN {"context canceled"} ELSE outcomes

ObtainCertFailedNever(e) == FALSE

\* cron.go:65 and cron.go:109: err != nil after obtainCert
ObtainCertFailed(e) == e # NoErr

AfterObtainCertCreate(ph) == "Create"

\* cron.go:69 and cron.go:113: what the calling loop does with the certificate
AfterObtainCert(ph) == IF ph = "domains" THEN "Create" ELSE "PatchCertificate"

\* obtainCert returns (c, k, e) to the loop that called it; evs are the calls
\* made in this step
ObtainReturn(c, k, e, evs) ==
  /\ cert' = c
  /\ key' = k
  /\ certKey' = Nil /\ csr' = Nil /\ accountKey' = Nil
  /\ authorization' = Nil /\ challenge' = Nil
  /\ calls' = calls \o evs \o
                <<Call("obtainCert.return", domain, e = NoErr,
                       [step |-> e.step, cause |-> e.cause])>>
  /\ IF ObtainCertFailed(e)
       THEN Return(Err("obtain cert", domain, e.step, e.cause))
       ELSE /\ pc' = AfterObtainCert(phase)
            /\ UNCHANGED <<err, out, status>>

\* acme.go:49-66: the certificate key, the request and the account key
obtainCert ==
  /\ pc = "obtainCert"
  /\ \E o \in {"ok", "cert key", "csr", "account key"} :
       IF o = "ok"
         THEN /\ issued' = issued + 1
              /\ certKey' = GenerateKey("cert", issued + 1)
              /\ csr' = CertificateRequest(domain, GenerateKey("cert", issued + 1))
              /\ accountKey' = GenerateKey("account", issued + 1)
              /\ pc' = "Register"
              /\ UNCHANGED <<authorization, challenge, result, calls>>
         ELSE /\ ObtainReturn(NoPem, NoPem, Err("", domain, o, "failed"), <<>>)
              /\ UNCHANGED issued
  /\ UNCHANGED <<registry, cache, now, quota, req, ctxDone, locals, resp, cancelAt>>

RegisterFailedNever(o) == FALSE

\* acme.go:72: err != nil after Register
RegisterFailed(o) == o # "ok"

Register ==
  /\ pc = "Register"
  /\ \E o \in CaOutcomes(ctxDone, {"ok", "failed"}) :
       IF RegisterFailed(o)
         THEN ObtainReturn(NoPem, NoPem, Err("", domain, "register", o),
                           <<Call("Register", domain, o = "ok", Nil)>>)
         ELSE /\ pc' = "Authorize"
              /\ Log("Register", domain, o = "ok", Nil)
              /\ UNCHANGED <<certKey, csr, accountKey, authorization, challenge, result>>
  /\ UNCHANGED <<registry, cache, now, quota, req, ctxDone, locals, issued, resp,
                 cancelAt>>

\* the answers of the CA to the n-th authorization request
Authorizations(n) ==
  {[Status |-> st, URI |-> n, Challenges |-> c] :
     st \in {"pending", "valid"}, c \in ChallengeOffers(n)}

AlreadyValidAlways(a) == TRUE
AlreadyValidNever(a) == FALSE

\* acme.go:105
AlreadyValid(a) == a.Status = "valid"

\* acme.go:109-115: the first challenge of type http-01, or nil
Http01(challenges) == {k \in 1..Len(challenges) : challenges[k].Type = "http-01"}
SelectLastChallenge(challenges) ==
  IF Http01(challenges) = {}
    THEN Nil
    ELSE challenges[CHOOSE k \in Http01(challenges) : \A m \in Http01(challenges) : k >= m]

SelectChallenge(challenges) ==
  IF Http01(challenges) = {}
    THEN Nil
    ELSE challenges[CHOOSE k \in Http01(challenges) : \A m \in Http01(challenges) : k <= m]

\* acme.go:101-104: the authorization request
Authorize ==
  /\ pc = "Authorize"
  /\ \/ \E o \in CaOutcomes(ctxDone, {"failed"}) :
          ObtainReturn(NoPem, NoPem, Err("", domain, "authorize", o),
                       <<Call("Authorize", domain, FALSE, Nil)>>)
     \/ /\ ~ctxDone
        /\ \E a \in Authorizations(issued) :
             /\ authorization' = a
             /\ pc' = "Challenge"
             /\ Log("Authorize", domain, TRUE, [Status |-> a.Status])
             /\ UNCHANGED <<certKey, csr, accountKey, challenge, result>>
  /\ UNCHANGED <<registry, cache, now, quota, req, ctxDone, locals, issued, resp,
                 cancelAt>>

\* acme.go:105-123: an authorization already valid ends authorize; otherwise
\* the challenge is chosen and its response computed
Http01Challenge ==
  /\ pc = "Challenge"
  /\ IF AlreadyValid(authorization)
       THEN /\ pc' = "CreateCert"
            /\ authorization' = Nil
            /\ UNCHANGED <<certKey, csr, accountKey, challenge, result, calls>>
       ELSE IF SelectChallenge(authorization.Challenges) = Nil
         THEN ObtainReturn(NoPem, NoPem,
                Err("", domain, "no http-01 challenge offered", ""), <<>>)
         ELSE \/ /\ challenge' = SelectChallenge(authorization.Challenges)
                 /\ pc' = "memcache.Set"
                 /\ UNCHANGED <<certKey, csr, accountKey, authorization, result, calls>>
              \/ ObtainReturn(NoPem, NoPem,
                   Err("", domain, "challenge response", "failed"), <<>>)
  /\ UNCHANGED <<registry, cache, now, quota, req, ctxDone, locals, issued, resp,
                 cancelAt>>

\* acme.go:124-126: the item published for the challenge
ChallengeItem(ch, k) ==
  [Key |-> HTTP01ChallengePath(ch.Token), Value |-> HTTP01ChallengeResponse(ch.Token, k)]

\* memcache.Set replaces the item of the key
Set(items, item) == {it \in items : it.Key # item.Key} \cup {item}

memcacheSet ==
  /\ pc = "memcache.Set"
  /\ \/ /\ cache' = Set(cache, ChallengeItem(challenge, accountKey))
        /\ pc' = "Accept"
        /\ Log("memcache.Set", domain, TRUE, ChallengeItem(challenge, accountKey))
        /\ UNCHANGED <<certKey, csr, accountKey, authorization, challenge, result>>
     \/ /\ ObtainReturn(NoPem, NoPem, Err("", domain, "memcache set", "failed"),
                        <<Call("memcache.Set", domain, FALSE,
                               ChallengeItem(challenge, accountKey))>>)
        /\ UNCHANGED cache
  /\ UNCHANGED <<registry, now, quota, req, ctxDone, locals, issued, resp, cancelAt>>

Accept ==
  /\ pc = "Accept"
  /\ \E o \in CaOutcomes(ctxDone, {"ok", "failed"}) :
       IF o = "ok"
         THEN /\ pc' = "WaitAuthorization"
              /\ Log("Accept", domain, TRUE, challenge)
              /\ UNCHANGED <<certKey, csr, accountKey, authorization, challenge, result>>
         ELSE ObtainReturn(NoPem, NoPem, Err("", domain, "accept challenge", o),
                           <<Call("Accept", domain, FALSE, challenge)>>)
  /\ UNCHANGED <<registry, cache, now, quota, req, ctxDone, locals, issued, resp,
                 cancelAt>>

\* acme.go:134: one poll of the authorization.  The client polls until the
\* status is valid or invalid, a poll fails or the context is done.
WaitAuthorization ==
  /\ pc = "WaitAuthorization"
  /\ \E o \in CaOutcomes(ctxDone, {"valid", "invalid", "failed", "pending"}) :
       CASE o = "valid" ->
              /\ pc' = "CreateCert"
              /\ authorization' = Nil /\ challenge' = Nil
              /\ Log("WaitAuthorization", domain, TRUE, [Status |-> o])
              /\ UNCHANGED <<certKey, csr, accountKey, result>>
         [] o = "pending" ->
              /\ pc' = "Sleep"
              /\ UNCHANGED <<certKey, csr, accountKey, authorization, challenge, result,
                             calls>>
         [] OTHER ->
              ObtainReturn(NoPem, NoPem, Err("", domain, "authorization", o),
                           <<Call("WaitAuthorization", domain, FALSE, [Status |-> o])>>)
  /\ UNCHANGED <<registry, cache, now, quota, req, ctxDone, locals, issued, resp,
                 cancelAt>>

\* the wait between two polls; time passes
Sleep ==
  /\ pc = "Sleep"
  /\ IF ctxDone
       THEN /\ ObtainReturn(NoPem, NoPem,
                            Err("", domain, "authorization", "context canceled"),
                            <<Call("WaitAuthorization", domain, FALSE,
                                   [Status |-> "context canceled"])>>)
            /\ UNCHANGED now
       ELSE /\ pc' = "WaitAuthorization"
            /\ now' \in {now} \cup {t \in {now + 1} : t <= MaxNow}
            /\ UNCHANGED <<certKey, csr, accountKey, authorization, challenge, result,
                           calls>>
  /\ UNCHANGED <<registry, cache, quota, req, ctxDone, locals, issued, resp, cancelAt>>

\* acme.go:80-95: the certificate request is submitted, the chain and the key
\* are PEM encoded
CreateCertFailedNever(o) == FALSE

\* acme.go:83: err != nil after CreateCert
CreateCertFailed(o) == o # "ok"

\* the chain CreateCert returns: none when the call failed
CertDER(o, request, today) == IF o = "ok" THEN IssuedChain(request, today) ELSE <<>>

CreateCert ==
  /\ pc = "CreateCert"
  /\ \E o \in CaOutcomes(ctxDone, {"ok", "failed"}) :
       IF CreateCertFailed(o)
         THEN ObtainReturn(NoPem, NoPem, Err("", domain, "create cert", o),
                           <<Call("CreateCert", domain, o = "ok", csr)>>)
         ELSE ObtainReturn(EncodeChain(CertDER(o, csr, now)), EncodeKey(certKey), NoErr,
                           <<Call("CreateCert", domain, o = "ok", csr)>>)
  /\ UNCHANGED <<registry, cache, now, quota, req, ctxDone, locals, issued, resp,
                 cancelAt>>

(***************************************************************************)
(* createUpdate: the registry writes of the loop over the domain mappings.  *)
(* The registry refuses raw data that holds no certificate.                 *)
(***************************************************************************)
Create ==
  /\ pc = "Create"
  /\ \/ /\ cert # NoPem
        /\ created' = AuthorizedCertificate(nextId, domain, RawData(cert, key))
        /\ certs' = Append(certs, AuthorizedCertificate(nextId, domain, RawData(cert, key)))
        /\ nextId' = nextId + 1
        /\ pc' = "PatchMapping"
        /\ Log("AuthorizedCertificates.Create", domain, TRUE,
               [Id |-> nextId, DisplayName |-> domain, raw |-> RawData(cert, key)])
        /\ UNCHANGED <<err, out, status>>
     \/ \E m \in ApiMessages :
          /\ Return(addTip(Err("create cert", domain, "", m)))
          /\ Log("AuthorizedCertificates.Create", domain, FALSE,
                 [Id |-> 0, DisplayName |-> domain, raw |-> RawData(cert, key)])
          /\ UNCHANGED <<created, certs, nextId>>
  /\ UNCHANGED <<mappings, cache, now, quota, req, ctxDone, dm, ac, i, j, domain, phase,
                 cert, key, issuance, resp, cancelAt>>

\* the mapping of domain d with ssl_settings.certificate_id set to id
PatchedMappings(ms, d, id) ==
  [k \in 1..Len(ms) |->
     IF ms[k].Id = d THEN [ms[k] EXCEPT !.SslSettings = SslSettings(id)] ELSE ms[k]]

PatchMapping ==
  /\ pc = "PatchMapping"
  /\ \/ /\ mappings' = PatchedMappings(mappings, domain, created.Id)
        /\ i' = i + 1
        /\ pc' = "DomainMappings"
        /\ Log("DomainMappings.Patch", domain, TRUE, [Id |-> created.Id])
        /\ UNCHANGED <<err, out, status>>
     \/ \E m \in ApiMessages :
          /\ Return(addTip(Err("update mapping", domain, "", m)))
          /\ Log("DomainMappings.Patch", domain, FALSE, [Id |-> created.Id])
          /\ UNCHANGED <<mappings, i>>
  /\ UNCHANGED <<certs, nextId, cache, now, quota, req, ctxDone, dm, ac, j, domain,
                 phase, created, cert, key, issuance, resp, cancelAt>>

(***************************************************************************)
(* createUpdate: the loop over the certificates.                            *)
(***************************************************************************)
ListCertificates ==
  /\ pc = "ListCertificates"
  /\ \/ /\ ac' = certs
        /\ j' = 1
        /\ pc' = "Certificates"
        /\ out' = Append(out, Line("Found certificates", ""))
        /\ status' = Written(status)
        /\ Log("AuthorizedCertificates.List", "", TRUE, [now |-> now])
        /\ UNCHANGED err
     \/ \E m \in ApiMessages :
          /\ Return(addTip(Err("list certificates", "", "", m)))
          /\ Log("AuthorizedCertificates.List", "", FALSE, Nil)
          /\ UNCHANGED <<ac, j>>
  /\ UNCHANGED <<registry, cache, now, quota, req, ctxDone, dm, i, domain, phase,
                 created, cert, key, issuance, resp, cancelAt>>

NothingToDoAtExpiry(today, expire) == today + updateBefore <= expire
NothingToDoLate(today, expire) == today + updateBefore + 1 < expire

\* cron.go:102: time.Now().Add(updateBefore).Before(expire)
NothingToDo(today, expire) == today + updateBefore < expire

\* the head of the loop over ac.Certificates
Certificates ==
  /\ pc = "Certificates"
  /\ IF j > Len(ac)
       THEN /\ ReturnNil(<<Line("", "")>>)
            /\ UNCHANGED <<j, domain, phase, calls>>
       ELSE /\ domain' = ac[j].DomainNames[1]
            /\ IF ~ParseRFC3339(ac[j].ExpireTime).ok
                 THEN /\ Return(Err("invalid expiry", ac[j].DomainNames[1], "", "parse"))
                      /\ UNCHANGED <<j, phase, calls>>
                 ELSE IF NothingToDo(now, ParseRFC3339(ac[j].ExpireTime).t)
                   THEN /\ out' = Append(out, Line("expires, nothing to do",
                                                   ac[j].DomainNames[1]))
                        /\ status' = Written(status)
                        /\ j' = j + 1
                        /\ pc' = "Certificates"
                        /\ Log("skip", ac[j].DomainNames[1], TRUE,
                               [Id |-> ac[j].Id, x |-> j, now |-> now])
                        /\ UNCHANGED <<phase, err>>
                   ELSE /\ out' = Append(out, Line("expires, updating",
                                                   ac[j].DomainNames[1]))
                        /\ status' = Written(status)
                        /\ phase' = "certs"
                        /\ pc' = "obtainCert"
                        /\ Log("obtainCert", ac[j].DomainNames[1], TRUE,
                               [Id |-> ac[j].Id, x |-> j, now |-> now])
                        /\ UNCHANGED <<j, err>>
  /\ UNCHANGED <<registry, cache, now, quota, req, ctxDone, dm, ac, i, created,
                 cert, key, issuance, resp, cancelAt>>

\* the certificate id with certificate_raw_data replaced; the registry derives
\* the names and the expiry from the new data
PatchedCertificates(cs, id, raw) ==
  [k \in 1..Len(cs) |->
     IF cs[k].Id = id
       THEN AuthorizedCertificate(cs[k].Id, cs[k].DisplayName, raw)
       ELSE cs[k]]

PatchCertificate ==
  /\ pc = "PatchCertificate"
  /\ \/ /\ cert # NoPem
        /\ certs' = PatchedCertificates(certs, ac[j].Id, RawData(cert, key))
        /\ j' = j + 1
        /\ pc' = "Certificates"
        /\ Log("AuthorizedCertificates.Patch", domain, TRUE,
               [Id |-> ac[j].Id, x |-> j, raw |-> RawData(cert, key)])
        /\ UNCHANGED <<err, out, status>>
     \/ \E m \in ApiMessages :
          /\ Return(addTip(Err("update cert", domain, "", m)))
          /\ Log("AuthorizedCertificates.Patch", domain, FALSE,
                 [Id |-> ac[j].Id, x |-> j, raw |-> RawData(cert, key)])
          /\ UNCHANGED <<certs, j>>
  /\ UNCHANGED <<mappings, nextId, cache, now, quota, req, ctxDone, dm, ac, i, domain,
                 phase, created, cert, key, issuance, resp, cancelAt>>

(***************************************************************************)
(* The environment of a run: the request's context may be cancelled, and    *)
(* days pass between requests.                                           *)
(***************************************************************************)
Cancel ==
  /\ pc # "idle"
  /\ ~ctxDone
  /\ ctxDone' = TRUE
  /\ cancelAt' = [pc |-> pc, domain |-> domain, calls |-> Len(calls),
                   certs |-> certs, mappings |-> mappings]
  /\ UNCHANGED <<registry, cache, now, quota, req, pc, locals, result, issuance, resp,
                 calls>>

Tick ==
  /\ pc = "idle"
  /\ quota > 0
  /\ now < MaxNow
  /\ now' = now + 1
  /\ UNCHANGED <<registry, cache, quota, req, ctxDone, pc, locals, result, issuance,
                 resp, calls, cancelAt>>

(***************************************************************************)
(* challengeHandler and memcache.                                           *)
(***************************************************************************)
\* memcache.Get: the item of the key, ErrCacheMiss, or another error
Get(items, k, failure) ==
  IF failure
    THEN [err |-> "server error", Value |-> Nil]
    ELSE IF \E it \in items : it.Key = k
      THEN [err |-> "nil", Value |-> (CHOOSE it \in items : it.Key = k).Value]
      ELSE [err |-> "ErrCacheMiss", Value |-> Nil]

ChallengeAnswerNotFound(got) ==
  CASE got.err = "nil" -> [status |-> 200, body |-> got.Value]
    [] OTHER -> [status |-> 404, body |-> Nil]

\* acme.go:32-39
ChallengeAnswer(got) ==
  CASE got.err = "nil" -> [status |-> 200, body |-> got.Value]
    [] got.err = "ErrCacheMiss" -> [status |-> 404, body |-> Nil]
    [] OTHER -> [status |-> 500, body |-> Nil]

\* acme.go:31: the key looked up is the path of the request
LookupKey(path) == path

\* paths a client may ask for: those of the tokens offered so far, and one
\* that is never published
RequestPaths ==
  {HTTP01ChallengePath(Token(n, k)) : n \in 0..issued, k \in 1..2}

challengeHandler(path) ==
  /\ \E failure \in BOOLEAN :
       resp' = [path |-> path, lookup |-> Get(cache, path, failure),
                answer |-> ChallengeAnswer(Get(cache, LookupKey(path), failure))]
  /\ UNCHANGED <<registry, cache, now, quota, req, ctxDone, pc, locals, result,
                 issuance, calls, cancelAt>>

\* memcache may drop any item at any time
Evict(item) ==
  /\ item \in cache
  /\ cache' = cache \ {item}
  /\ UNCHANGED <<registry, now, quota, req, ctxDone, pc, locals, result, issuance,
                 resp, calls, cancelAt>>

(***************************************************************************)
(* Specifications.                                                          *)
(***************************************************************************)
Run ==
  \/ NewService \/ ListDomainMappings \/ DomainMappings
  \/ obtainCert \/ Register \/ Authorize \/ Http01Challenge \/ memcacheSet \/ Accept
  \/ WaitAuthorization \/ Sleep \/ CreateCert
  \/ Create \/ PatchMapping
  \/ ListCertificates \/ Certificates \/ PatchCertificate

\* the trigger endpoint and its runs
Next ==
  \/ \E header \in {"", "true"}, isAdmin \in BOOLEAN : cronHandler(header, isAdmin)
  \/ Run
  \/ Cancel
  \/ Tick

Spec == Init /\ [][Next]_vars

\* the challenge endpoint and memcache beside the runs, over one registry: the
\* last domain is bound to a certificate that has expired, the others lack a
\* certificate
SmallInit ==
  /\ Init
  /\ certs = <<InitialCert(1, DomainNames[MaxDomains], FormatRFC3339(0))>>
  /\ \A k \in 1..MaxDomains : mappings[k].SslSettings # Nil <=> k = MaxDomains

ChallengeNext ==
  \/ Next
  \/ \E path \in RequestPaths : challengeHandler(path)
  \/ \E item \in cache : Evict(item)

ChallengeSpec == SmallInit /\ [][ChallengeNext]_vars

\* a run that is never suspended for ever: the handler's goroutine keeps
\* executing
LiveSpec == SmallInit /\ [][Next]_vars /\ WF_vars(Run)

\* the trigger endpoint called once more than in Spec (the daily cron), over
\* registries that hold at most one certificate
RerunInit ==
  /\ certs \in {cs \in InitialCerts : Len(cs) <= 1}
  /\ mappings \in InitialMappings(certs)
  /\ nextId = Len(certs) + 1
  /\ cache = {}
  /\ now = 0
  /\ quota = MaxRequests + 1
  /\ req = Nil
  /\ issued = 0
  /\ resp = Nil
  /\ Idle

RerunSpec == RerunInit /\ [][Next]_vars

(***************************************************************************)
(* Vocabulary of the properties.                                            *)
(***************************************************************************)
Events == 1..Len(calls)
RegistryWrites ==
  {"AuthorizedCertificates.Create", "DomainMappings.Patch", "AuthorizedCertificates.Patch"}
MaterialWrites == {"AuthorizedCertificates.Create", "AuthorizedCertificates.Patch"}
CaCalls == {"Register", "Authorize", "Accept", "WaitAuthorization", "CreateCert"}

\* the listed mapping e has a certificate
Bound(e) == e.SslSettings # Nil

\* a run was started for the request and createUpdate has returned
RunEnded == req # Nil /\ status # 403 /\ pc = "idle"

\* obtainCert was called for domain d
Attempted(d) == \E k \in Events : calls[k].op = "obtainCert" /\ calls[k].domain = d

\* the certificate listing was made, at event ListedAt
Listed == \E k \in Events : calls[k].op = "AuthorizedCertificates.List" /\ calls[k].ok
ListedAt == CHOOSE k \in Events : calls[k].op = "AuthorizedCertificates.List"

\* the last event before k that starts an obtainCert call
StartOf(k) ==
  CHOOSE s \in 1..k : /\ calls[s].op = "obtainCert"
                      /\ \A m \in (s + 1)..k : calls[m].op # "obtainCert"

\* obtainCert returned an error at event k
FailedReturn(k) == calls[k].op = "obtainCert.return" /\ ~calls[k].ok
GoodReturn(k) == calls[k].op = "obtainCert.return" /\ calls[k].ok

Leaf(raw) == raw.PublicCertificate[1].Bytes

IssuedBefore(k) ==
  /\ k > 1
  /\ GoodReturn(k - 1)
  /\ calls[k - 1].domain = calls[k].domain
  /\ LET s == StartOf(k)
         d == calls[k].domain
     IN /\ \A m \in s..(k - 1) : calls[m].ok /\ calls[m].domain = d
        /\ \E c \in s..(k - 1) :
             /\ calls[c].op = "CreateCert"
             /\ Leaf(calls[k].data.raw).CommonName = d
             /\ Leaf(calls[k].data.raw).key = calls[c].data.key
             /\ calls[k].data.raw.PrivateKey = EncodeKey(calls[c].data.key)
             /\ \E a \in s..(c - 1) :
                  /\ calls[a].op = "Authorize"
                  /\ \E r \in s..(a - 1) : calls[r].op = "Register"

C2_WriteOnlyAfterIssuance ==
  /\ \A k \in Events : calls[k].op \in MaterialWrites => IssuedBefore(k)
  /\ \A k \in Events :
       FailedReturn(k) => \A m \in (k + 1)..Len(calls) : calls[m].op \notin RegistryWrites

\* a certificate was created and another one patched in the same run
C2_Witness ==
  /\ \E k \in Events : calls[k].op = "AuthorizedCertificates.Create" /\ calls[k].ok
  /\ \E k \in Events : calls[k].op = "AuthorizedCertificates.Patch" /\ calls[k].ok

(***************************************************************************)
(* Vocabulary of the certificate loop.  Its events carry the identifier of  *)
(* the certificate and its position x in the listing.                       *)
(***************************************************************************)
CertLoop == (ListedAt + 1)..Len(calls)
Expiry(c) == ParseRFC3339(c.ExpireTime)

\* the mappings the run listed, with the bindings its mapping patches made
BoundBy(d) ==
  {calls[k].data.Id : k \in {m \in Events : /\ calls[m].op = "DomainMappings.Patch"
                                            /\ calls[m].ok
                                            /\ calls[m].domain = d}}
ExpectedMappings ==
  [k \in 1..Len(dm) |->
     IF BoundBy(dm[k].Id) = {}
       THEN dm[k]
       ELSE DomainMapping(dm[k].Id, SslSettings(CHOOSE id \in BoundBy(dm[k].Id) : TRUE))]

\* event m patched the listed certificate at position x in place: same
\* identifier and display name, raw data freshly issued for its domain
PatchInPlace(m, x) ==
  /\ calls[m].op = "AuthorizedCertificates.Patch"
  /\ calls[m].ok
  /\ calls[m].data.x = x
  /\ calls[m].data.Id = ac[x].Id
  /\ calls[m].domain = ac[x].DomainNames[1]
  /\ certs[x] = AuthorizedCertificate(ac[x].Id, ac[x].DisplayName, calls[m].data.raw)
  /\ Leaf(calls[m].data.raw).CommonName = ac[x].DomainNames[1]
  /\ Leaf(calls[m].data.raw).DNSNames = <<ac[x].DomainNames[1]>>
  /\ Leaf(calls[m].data.raw).key.n >= 1
  /\ calls[m].data.raw.PrivateKey = EncodeKey(Leaf(calls[m].data.raw).key)

PatchedInPlace(x) == \E m \in CertLoop : PatchInPlace(m, x)

FailureRecordedFor(d) == RunEnded /\ err # NoErr /\ err.domain = d

C4_OutsideWindowUntouched ==
  Listed =>
    /\ \A k \in CertLoop :
         /\ calls[k].op = "obtainCert" =>
              /\ Expiry(ac[calls[k].data.x]).ok
              /\ Expiry(ac[calls[k].data.x]).t <= calls[k].data.now + updateBefore
         /\ calls[k].op = "AuthorizedCertificates.Patch" =>
              \E m \in (ListedAt + 1)..(k - 1) :
                calls[m].op = "obtainCert" /\ calls[m].data.x = calls[k].data.x
    /\ \A x \in 1..Len(ac) :
         (Expiry(ac[x]).ok /\ Expiry(ac[x]).t > now + updateBefore) =>
           /\ certs[x] = ac[x]
           /\ \A k \in CertLoop :
                calls[k].op \in {"obtainCert", "AuthorizedCertificates.Patch"} =>
                  calls[k].data.x # x

\* a run that ended well skipped a certificate expiring in 31 days and
\* patched another one
C4_Witness ==
  /\ RunEnded /\ err = NoErr /\ Listed
  /\ \E k \in CertLoop :
       /\ calls[k].op = "skip"
       /\ Expiry(ac[calls[k].data.x]).t = now + updateBefore + 1
  /\ \E x \in 1..Len(ac) : PatchedInPlace(x)

(***************************************************************************)
(* C5: when createUpdate returns nil, every domain that was listed without  *)
(* a certificate is bound to a certificate this run created, whose leaf has *)
(* the domain as common name and as only DNS name.                          *)
(***************************************************************************)
C5_SuccessBindsEveryDomain ==
  (RunEnded /\ err = NoErr) =>
    \A k \in 1..Len(dm) :
      ~Bound(dm[k]) =>
        \E x \in 1..Len(certs) :
          /\ Leaf(certs[x].CertificateRawData).CommonName = dm[k].Id
          /\ Leaf(certs[x].CertificateRawData).DNSNames = <<dm[k].Id>>
          /\ mappings[k] = DomainMapping(dm[k].Id, SslSettings(certs[x].Id))
          /\ \E m \in Events : /\ calls[m].op = "AuthorizedCertificates.Create"
                               /\ calls[m].ok
                               /\ calls[m].data.Id = certs[x].Id

\* a run over a listing in which no domain had a certificate returned nil
C5_Witness ==
  /\ RunEnded /\ err = NoErr
  /\ Len(dm) = MaxDomains
  /\ \A k \in 1..Len(dm) : ~Bound(dm[k])

(***************************************************************************)
(* Vocabulary of the domain loop: its events are those before the listing   *)
(* of the certificates.                                                     *)
(***************************************************************************)
DomainLoop ==
  IF \E k \in Events : calls[k].op = "AuthorizedCertificates.List"
    THEN 1..(ListedAt - 1)
    ELSE Events
Count(op, d) == Cardinality({k \in DomainLoop : calls[k].op = op /\ calls[k].domain = d})

(***************************************************************************)
(* C6 as stated: after the run, every domain without a certificate whose    *)
(* issuance succeeded has exactly one Create call and exactly one mapping   *)
(* Patch after it.                                                          *)
(***************************************************************************)
C6_OneCreateOnePatch ==
  RunEnded =>
    \A k \in DomainLoop :
      GoodReturn(k) =>
        /\ Count("AuthorizedCertificates.Create", calls[k].domain) = 1
        /\ Count("DomainMappings.Patch", calls[k].domain) = 1

(***************************************************************************)
(* C6 amended: in the loop over the domains, a mapping that has a           *)
(* certificate causes no obtainCert call, no Create and no mapping Patch.   *)
(* A domain without one whose issuance succeeded causes exactly one Create  *)
(* call, with the domain as display name; if that Create succeeds, exactly  *)
(* one mapping Patch follows it, binding the created identifier to the      *)
(* domain; if it fails, the run ends with no mapping Patch.                 *)
(***************************************************************************)
C6_OneCreateThenPatchIfCreated ==
  /\ \A k \in 1..Len(dm) :
       Bound(dm[k]) =>
         \A m \in DomainLoop :
           calls[m].op \in {"obtainCert", "obtainCert.return"} \cup RegistryWrites =>
             calls[m].domain # dm[k].Id
  /\ \A k \in DomainLoop :
       /\ GoodReturn(k) =>
            /\ Count("AuthorizedCertificates.Create", calls[k].domain) <= 1
            /\ Count("DomainMappings.Patch", calls[k].domain) <= 1
            /\ IF k = Len(calls)
                 THEN pc = "Create"
                 ELSE /\ calls[k + 1].op = "AuthorizedCertificates.Create"
                      /\ calls[k + 1].domain = calls[k].domain
                      /\ calls[k + 1].data.DisplayName = calls[k].domain
       /\ calls[k].op = "AuthorizedCertificates.Create" =>
            /\ GoodReturn(k - 1)
            /\ IF calls[k].ok
                 THEN IF k = Len(calls)
                        THEN pc = "PatchMapping"
                        ELSE /\ calls[k + 1].op = "DomainMappings.Patch"
                             /\ calls[k + 1].domain = calls[k].domain
                             /\ calls[k + 1].data.Id = calls[k].data.Id
                 ELSE /\ k = Len(calls)
                      /\ RunEnded
                      /\ err.kind = "create cert"
                      /\ Count("DomainMappings.Patch", calls[k].domain) = 0
       /\ calls[k].op = "DomainMappings.Patch" =>
            calls[k - 1].op = "AuthorizedCertificates.Create" /\ calls[k - 1].ok

\* the run left a domain with a certificate alone and created and bound a
\* certificate for a domain without one
C6_Witness ==
  /\ RunEnded
  /\ \E k \in 1..Len(dm) : Bound(dm[k])
  /\ \E k \in DomainLoop :
       /\ calls[k].op = "DomainMappings.Patch" /\ calls[k].ok
       /\ Count("AuthorizedCertificates.Create", calls[k].domain) = 1

(***************************************************************************)
(* C7: the answer of the challenge endpoint is decided by the lookup of the *)
(* request's path in the store: an item found is returned as it is with     *)
(* status 200, and it is the value authorize published at that path; a      *)
(* cache miss gives 404; any other store error gives 500, never 404.        *)
(***************************************************************************)
C7_AnswerFollowsLookup ==
  resp # Nil =>
    /\ resp.lookup.err = "nil" =>
         /\ resp.answer = [status |-> 200, body |-> resp.lookup.Value]
         /\ resp.answer.body.token = resp.path[2]
         /\ \A k \in Events :
              (/\ calls[k].op = "memcache.Set" /\ calls[k].ok
               /\ calls[k].data.Key = resp.path) =>
                resp.answer.body = calls[k].data.Value
    /\ resp.lookup.err = "ErrCacheMiss" => resp.answer.status = 404
    /\ resp.lookup.err \notin {"nil", "ErrCacheMiss"} => resp.answer.status = 500

\* while the CA is polled, a GET of the published path returned the published
\* response
C7_Witness ==
  /\ pc = "WaitAuthorization"
  /\ resp # Nil
  /\ resp.path = HTTP01ChallengePath(challenge.Token)
  /\ resp.answer = [status |-> 200,
                    body |-> HTTP01ChallengeResponse(challenge.Token, accountKey)]

(***************************************************************************)
(* C8: a request without the X-Appengine-Cron header that does not come     *)
(* from an admin is answered 403 "unauthorized" and starts nothing: no      *)
(* listing, no CA call, no publication and no registry write is made for    *)
(* it, and the registry and the store are as they were.                     *)
(***************************************************************************)
Refused == req # Nil /\ req.cron = "" /\ ~req.admin

C8_UnauthorizedStartsNothing ==
  /\ [](Refused =>
          /\ pc = "idle"
          /\ status = 403
          /\ out = <<Line("unauthorized", "")>>
          /\ calls = <<>>)
  /\ [][(quota' < quota /\ req'.cron = "" /\ ~req'.admin) =>
          UNCHANGED <<registry, cache, issued>>]_vars

C8_Witness == Refused /\ status = 403 /\ quota < MaxRequests

(***************************************************************************)
(* C9: once authorize polls the authorization, the polling ends.            *)
(***************************************************************************)
C9_PollingEnds == (pc = "WaitAuthorization") ~> (pc \notin {"WaitAuthorization", "Sleep"})

(***************************************************************************)
(* C10: when the context is cancelled while a call to the CA is in flight,  *)
(* the call returns the context's error, createUpdate returns              *)
(* "obtain cert for <domain>: <step>: context canceled" for the domain in   *)
(* flight, the registry stays as the earlier iterations left it, no         *)
(* registry write follows, and the response holds the lines of the domains  *)
(* handled before and then the error.                                       *)
(***************************************************************************)
InFlight == {"Register", "Authorize", "Accept", "WaitAuthorization", "CreateCert"}
StepOf(p) ==
  CASE p = "Register" -> "register"
    [] p = "Authorize" -> "authorize"
    [] p = "Accept" -> "accept challenge"
    [] p = "WaitAuthorization" -> "authorization"
    [] p = "CreateCert" -> "create cert"

CancelledInFlight == cancelAt # Nil /\ cancelAt.pc \in InFlight

C10_CancelAbortsRun ==
  CancelledInFlight =>
    /\ pc \in {cancelAt.pc, "idle"}
    /\ certs = cancelAt.certs
    /\ mappings = cancelAt.mappings
    /\ \A m \in (cancelAt.calls + 1)..Len(calls) : calls[m].op \notin RegistryWrites
    /\ pc = "idle" =>
         /\ err = Err("obtain cert", cancelAt.domain, StepOf(cancelAt.pc), "context canceled")
         /\ out[Len(out)] = ErrorLine(err)
         /\ \A k \in 1..cancelAt.calls :
              calls[k].op = "obtainCert" =>
                \E n \in 1..(Len(out) - 1) : out[n].domain = calls[k].domain

\* the context was cancelled during a CA call for the second domain, after a
\* certificate had been created and bound for the first
C10_Witness ==
  /\ CancelledInFlight
  /\ pc = "idle"
  /\ \E k \in 1..cancelAt.calls :
       /\ calls[k].op = "DomainMappings.Patch" /\ calls[k].ok
       /\ calls[k].domain # cancelAt.domain
       /\ \E x \in 1..Len(certs) : certs[x].Id = calls[k].data.Id

(***************************************************************************)
(* C11: in authorize, for an authorization that is not already valid, the   *)
(* challenge response is published only after the authorization request     *)
(* succeeded, the CA is notified (Accept) only after the publication of     *)
(* that challenge's path succeeded, the polling starts only after Accept    *)
(* succeeded, and authorize returns success (so that CreateCert is called)  *)
(* only after a poll reported the authorization valid.                      *)
(***************************************************************************)
\* the event before k is a successful call of op for the same domain
After(k, op) ==
  /\ k > 1
  /\ calls[k - 1].op = op /\ calls[k - 1].ok
  /\ calls[k - 1].domain = calls[k].domain

\* the last event is a successful call of op for the current domain
Last(op) ==
  /\ calls # <<>>
  /\ calls[Len(calls)].op = op /\ calls[Len(calls)].ok
  /\ calls[Len(calls)].domain = domain

C11_AuthorizeStepsInOrder ==
  /\ \A k \in Events :
       /\ calls[k].op = "memcache.Set" =>
            After(k, "Authorize") /\ calls[k - 1].data.Status # "valid"
       /\ calls[k].op = "Accept" =>
            /\ After(k, "memcache.Set")
            /\ calls[k - 1].data.Key = HTTP01ChallengePath(calls[k].data.Token)
       /\ calls[k].op = "WaitAuthorization" => After(k, "Accept")
       /\ calls[k].op = "CreateCert" =>
            \/ After(k, "WaitAuthorization") /\ calls[k - 1].data.Status = "valid"
            \/ After(k, "Authorize") /\ calls[k - 1].data.Status = "valid"
  /\ pc = "memcache.Set" => Last("Authorize")
  /\ pc = "Accept" => Last("memcache.Set")
  /\ pc \in {"WaitAuthorization", "Sleep"} => Last("Accept")
  /\ pc = "CreateCert" =>
       /\ Last("WaitAuthorization") \/ Last("Authorize")
       /\ calls[Len(calls)].data.Status = "valid"

\* a full authorization: request, publication, Accept, a valid poll, and then
\* the certificate request
C11_Witness ==
  \E k \in Events :
    /\ k > 4
    /\ calls[k].op = "CreateCert" /\ calls[k].ok
    /\ calls[k - 1].op = "WaitAuthorization"
    /\ calls[k - 2].op = "Accept"
    /\ calls[k - 3].op = "memcache.Set"
    /\ calls[k - 4].op = "Authorize"

(***************************************************************************)
(* C13: when the CA answers the authorization request with status valid,    *)
(* authorize returns success at once: the next call of the run is           *)
(* CreateCert for the same domain, with no publication to the store, no     *)
(* Accept and no poll in between.                                           *)
(***************************************************************************)
C13_ValidShortCircuits ==
  \A k \in Events :
    (calls[k].op = "Authorize" /\ calls[k].ok /\ calls[k].data.Status = "valid") =>
      /\ k < Len(calls) =>
           calls[k + 1].op = "CreateCert" /\ calls[k + 1].domain = calls[k].domain
      /\ k = Len(calls) =>
           /\ pc \in {"Challenge", "CreateCert"}
           /\ challenge = Nil
           /\ \A it \in cache : it.Key[2].n # issued

\* the authorization was already valid and the certificate was then issued
C13_Witness ==
  \E k \in Events :
    /\ calls[k].op = "Authorize" /\ calls[k].ok /\ calls[k].data.Status = "valid"
    /\ k < Len(calls)
    /\ calls[k + 1].op = "CreateCert" /\ calls[k + 1].ok

(***************************************************************************)
(* C12: from the publication of the challenge response until the CA         *)
(* confirms the authorization or the polling ends, the store holds the      *)
(* published response at the challenge's path.                              *)
(***************************************************************************)
C12_PublishedResponseStays ==
  pc \in {"Accept", "WaitAuthorization", "Sleep"} =>
    /\ ChallengeItem(challenge, accountKey) \in cache
    /\ Get(cache, HTTP01ChallengePath(challenge.Token), FALSE).Value =
         HTTP01ChallengeResponse(challenge.Token, accountKey)

(***************************************************************************)
(* C14: when an authorization that is not valid offers no challenge of      *)
(* type http-01, authorize fails with "no http-01 challenge offered" and    *)
(* the run makes no publication, no Accept and no poll for it; otherwise    *)
(* the challenge published and accepted is the first of type http-01 in     *)
(* the order offered.                                                       *)
(***************************************************************************)
\* the positions of the challenges of type t, and the first of them
Offered(cs, t) == {k \in 1..Len(cs) : cs[k].Type = t}
NoneBefore(cs, k, t) == \A m \in 1..(k - 1) : cs[m].Type # t
FirstOffered(cs, t) == cs[CHOOSE k \in Offered(cs, t) : NoneBefore(cs, k, t)]

C14_FirstHttp01OrError ==
  /\ [][(pc = "Challenge" /\ pc' # pc /\ authorization.Status # "valid") =>
          IF Offered(authorization.Challenges, "http-01") = {}
            THEN /\ pc' = "idle"
                 /\ err' = Err("obtain cert", domain, "no http-01 challenge offered", "")
                 /\ calls' = Append(calls, Call("obtainCert.return", domain, FALSE,
                                                [step |-> "no http-01 challenge offered",
                                                 cause |-> ""]))
                 /\ cache' = cache
            ELSE pc' = "memcache.Set" =>
                   challenge' = FirstOffered(authorization.Challenges, "http-01")]_vars
  /\ [](pc \in {"memcache.Set", "Accept", "WaitAuthorization", "Sleep"} =>
          challenge = FirstOffered(authorization.Challenges, "http-01"))
  /\ [](\A k \in Events :
          /\ (calls[k].op = "memcache.Set" /\ k = Len(calls) /\ pc = "Accept") =>
               calls[k].data =
                 ChallengeItem(FirstOffered(authorization.Challenges, "http-01"), accountKey)
          /\ (calls[k].op = "Accept" /\ k = Len(calls) /\ pc = "WaitAuthorization") =>
               calls[k].data = FirstOffered(authorization.Challenges, "http-01"))

\* two challenges of type http-01 were offered, with another type between
\* them, and the first was published and accepted
C14_Witness ==
  /\ pc = "WaitAuthorization"
  /\ Cardinality(Offered(authorization.Challenges, "http-01")) = 2
  /\ calls[Len(calls)].op = "Accept" /\ calls[Len(calls)].ok
  /\ calls[Len(calls)].data = authorization.Challenges[1]

(***************************************************************************)
(* C15: in obtainCert, CreateCert is called only after Register succeeded   *)
(* and authorize returned success for the same domain.  When Register or a  *)
(* step of authorize fails, CreateCert is not called, obtainCert returns    *)
(* no certificate and no key, and the error of authorize is returned as it  *)
(* is (createUpdate reports that step and cause for the domain).            *)
(***************************************************************************)
\* event m is the successful Register that opens the obtainCert call of k
Registered(m, k) ==
  /\ m > 1
  /\ calls[m].op = "Register" /\ calls[m].ok /\ calls[m].domain = calls[k].domain
  /\ calls[m - 1].op = "obtainCert" /\ calls[m - 1].domain = calls[k].domain

\* the message authorize or obtainCert gives the failure of a call
FailureOf(op) ==
  CASE op = "Register" -> "register"
    [] op = "Authorize" -> "authorize"
    [] op = "memcache.Set" -> "memcache set"
    [] op = "Accept" -> "accept challenge"
    [] op = "WaitAuthorization" -> "authorization"
    [] op = "CreateCert" -> "create cert"

C15_CreateCertAfterAuthorize ==
  \A k \in Events :
    /\ calls[k].op = "CreateCert" =>
         \/ /\ After(k, "Authorize") /\ calls[k - 1].data.Status = "valid"
            /\ Registered(k - 2, k)
         \/ /\ After(k, "WaitAuthorization") /\ calls[k - 1].data.Status = "valid"
            /\ Registered(k - 5, k)
    /\ (FailedReturn(k) /\ calls[k].data.step # "create cert") =>
         /\ calls[k - 1].op # "CreateCert"
         /\ cert = NoPem /\ key = NoPem
         /\ err = Err("obtain cert", calls[k].domain, calls[k].data.step, calls[k].data.cause)
    /\ (FailedReturn(k) /\ calls[k - 1].op \in CaCalls \cup {"memcache.Set"}
                        /\ ~calls[k - 1].ok) =>
         calls[k].data.step = FailureOf(calls[k - 1].op)

\* the CA declared the authorization invalid: no CreateCert, no certificate
C15_Witness ==
  /\ cert = NoPem /\ key = NoPem
  /\ \E k \in Events :
       /\ FailedReturn(k)
       /\ calls[k].data = [step |-> "authorization", cause |-> "invalid"]
       /\ calls[k - 1].op = "WaitAuthorization"

(***************************************************************************)
(* C16: within a run every action for a domain without a certificate (its   *)
(* obtainCert, Create and mapping Patch) comes before every action for a    *)
(* certificate (its examination, obtainCert and Patch); the domains are     *)
(* taken in the order of the domain listing and the certificates in the     *)
(* order of the certificate listing; and an obtainCert call starts only     *)
(* after the one before it has returned.                                    *)
(***************************************************************************)
\* event k belongs to the handling of a domain mapping / of a certificate
DomainAction(k) ==
  \/ calls[k].op \in {"AuthorizedCertificates.Create", "DomainMappings.Patch"}
  \/ calls[k].op = "obtainCert" /\ calls[k].data = Nil
CertAction(k) ==
  \/ calls[k].op \in {"AuthorizedCertificates.Patch", "skip"}
  \/ calls[k].op = "obtainCert" /\ calls[k].data # Nil

\* the position of domain d in the listing of the domain mappings
PosOf(d) == CHOOSE n \in 1..Len(dm) : dm[n].Id = d

C16_DomainsThenCertificatesInOrder ==
  LET acts == {k \in Events : DomainAction(k) \/ CertAction(k)}
      starts == {k \in acts : calls[k].op = "obtainCert"}
  IN /\ \A k \in acts : \A m \in {n \in acts : n > k} :
          /\ CertAction(k) => ~DomainAction(m)
          /\ (DomainAction(k) /\ DomainAction(m)) =>
               /\ PosOf(calls[k].domain) <= PosOf(calls[m].domain)
               /\ calls[m].op = "obtainCert" =>
                    PosOf(calls[k].domain) < PosOf(calls[m].domain)
          /\ (CertAction(k) /\ CertAction(m)) =>
               /\ calls[k].data.x <= calls[m].data.x
               /\ calls[m].op \in {"obtainCert", "skip"} =>
                    calls[k].data.x < calls[m].data.x
     /\ \A k \in starts : \A m \in {n \in starts : n > k} :
          \E r \in (k + 1)..(m - 1) : GoodReturn(r)

\* a run that issued for two domains, in the order listed, and then renewed a
\* certificate
C16_Witness ==
  \E k \in Events : \E m \in (k + 1)..Len(calls) : \E n \in (m + 1)..Len(calls) :
    /\ calls[k].op = "DomainMappings.Patch" /\ calls[k].ok
    /\ calls[m].op = "DomainMappings.Patch" /\ calls[m].ok
    /\ calls[n].op = "AuthorizedCertificates.Patch" /\ calls[n].ok

(***************************************************************************)
(* C17: when the listing of the domain mappings fails, createUpdate returns *)
(* the error "list domains" and the run has made no other call: no          *)
(* issuance, no publication, no registry write.  When the listing of the    *)
(* certificates fails, createUpdate returns the error "list certificates"   *)
(* and no certificate is examined, renewed or patched.                      *)
(***************************************************************************)
C17_ListFailureAbortsRun ==
  \A k \in Events :
    /\ (calls[k].op = "DomainMappings.List" /\ ~calls[k].ok) =>
         /\ calls = <<calls[k]>>
         /\ pc = "idle"
         /\ err # NoErr /\ err.kind = "list domains"
         /\ status = 500
         /\ out = <<ErrorLine(err)>>
         /\ dm = <<>> /\ ac = <<>>
    /\ (calls[k].op = "AuthorizedCertificates.List" /\ ~calls[k].ok) =>
         /\ k = Len(calls)
         /\ pc = "idle"
         /\ err # NoErr /\ err.kind = "list certificates"
         /\ out[Len(out)] = ErrorLine(err)
         /\ ac = <<>>
         /\ \A m \in Events : ~CertAction(m)

\* the listing of the certificates failed in a registry that holds a
\* certificate due for renewal
C17_Witness ==
  /\ RunEnded
  /\ calls # <<>>
  /\ calls[Len(calls)].op = "AuthorizedCertificates.List" /\ ~calls[Len(calls)].ok
  /\ \E x \in 1..Len(certs) : Expiry(certs[x]).t <= now + updateBefore

(***************************************************************************)
(* C18: after any run, every certificate the run created in the registry    *)
(* is bound to the domain mapping it was issued for.                        *)
(***************************************************************************)
C18_CreatedCertificateIsBound ==
  RunEnded =>
    \A k \in Events :
      (calls[k].op = "AuthorizedCertificates.Create" /\ calls[k].ok) =>
        \E n \in 1..Len(mappings) :
          /\ mappings[n].Id = calls[k].domain
          /\ mappings[n].SslSettings = SslSettings(calls[k].data.Id)

(***************************************************************************)
(* C19: after a run that returned success, a run over the resulting         *)
(* registry at the same time makes no obtainCert call, no certificate       *)
(* Create, no mapping Patch and no certificate Patch.                       *)
(***************************************************************************)
\* the request before this one ran createUpdate, which returned nil, and the
\* clock has not moved since that request arrived
AfterSuccessAtSameTime ==
  /\ req # Nil
  /\ req.prior # Nil
  /\ req.prior.ok
  /\ req.prior.at = now

C19_SecondRunDoesNothing ==
  AfterSuccessAtSameTime =>
    \A k \in Events : calls[k].op \notin {"obtainCert"} \cup RegistryWrites

\* the second run has ended: it found every domain with a certificate and
\* skipped a certificate that the first run had issued
C19_Witness ==
  /\ AfterSuccessAtSameTime
  /\ RunEnded /\ err = NoErr
  /\ dm # <<>> /\ \A n \in 1..Len(dm) : Bound(dm[n])
  /\ \E k \in Events :
       /\ calls[k].op = "skip"
       /\ Leaf(ac[calls[k].data.x].CertificateRawData).NotAfter = now + expiry

(***************************************************************************)
(* C20 as stated: within a run obtainCert is called at most once for any    *)
(* domain name, the calls of both loops counted.                            *)
(***************************************************************************)
Starts == {k \in Events : calls[k].op = "obtainCert"}

C20_OncePerDomainName ==
  \A k \in Starts : \A m \in Starts : k # m => calls[k].domain # calls[m].domain

(***************************************************************************)
(* C20 amended: within a run obtainCert is called at most once for each     *)
(* domain mapping that has no certificate at the listing, and at most once  *)
(* for each listed certificate that is due, under its first domain name.    *)
(* A domain name gets more than one call only when its mapping has no       *)
(* certificate while a listed certificate of that first name is due, or     *)
(* when several due certificates share that first name.                     *)
(***************************************************************************)
\* the calls the listings allow for domain name d
Unbound(d) == {n \in 1..Len(dm) : dm[n].Id = d /\ ~Bound(dm[n])}
Due(d) ==
  {x \in 1..Len(ac) : /\ ac[x].DomainNames[1] = d
                       /\ Expiry(ac[x]).t <= now + updateBefore}

C20_OncePerMappingAndDueCertificate ==
  /\ \A k \in Starts : \A m \in Starts :
       (k # m /\ calls[k].domain = calls[m].domain) =>
         \/ DomainAction(k) /\ CertAction(m)
         \/ CertAction(k) /\ DomainAction(m)
         \/ CertAction(k) /\ CertAction(m) /\ calls[k].data.x # calls[m].data.x
  /\ \A d \in Domains :
       Cardinality({k \in Starts : calls[k].domain = d}) <=
         Cardinality(Unbound(d)) + Cardinality(Due(d))

\* a domain without a certificate got one, and then an expired certificate of
\* the same name, bound to no mapping, was renewed: two calls for one name
C20_Witness ==
  /\ RunEnded
  /\ \E k \in Starts : \E m \in Starts :
       /\ calls[k].domain = calls[m].domain
       /\ DomainAction(k) /\ CertAction(m)
       /\ \E n \in Events : calls[n].op = "AuthorizedCertificates.Patch" /\ calls[n].ok

====
